---- MODULE Spec2Model ----
(***************************************************************************)
(* The minesweeper engine of rust-sweeper (src/model/sweeper.rs) as a      *)
(* state machine: one SweeperGame, driven through its public operations    *)
(* generate_board, start, open and flag, and through the controller's      *)
(* resign (src/app/sweeper_controller.rs); and the App (src/app.rs), which *)
(* drives the controller from key events.                                  *)
(***************************************************************************)
EXTENDS Integers, Sequences, FiniteSets, TLC

\* Bounds of the model: the boards new() is called with.
MaxWidth == 3
MaxHeight == 2
MaxCells == 6
\* How many operations a caller that ignores the end of the game (SpecLate)
\* still invokes after the game has ended.
MaxLateCalls == 2
MaxLateCells == 4
\* The clocked caller (SpecClock): how far the clock advances, and the boards
\* it plays on.
MaxNow == 3
MaxClockCells == 2
\* The side of the largest board adjacent_cells is examined on.
MaxAdjSide == 4
\* The largest step move_cursor is examined with, along each axis.
MaxStep == 3

\* Option::None of an Option<usize> / Option<Instant>.
None == -1

VARIABLES
    width, height,      \* board.width, board.height
    cells,              \* board.cells: index -> Cell
    num_bombs, num_revealed, num_flags,
    state,              \* GameState
    start_time,         \* Option<Instant>
    total_time,         \* Duration
    now,                \* the monotonic clock Instant::now() reads
    ret,                \* the value the last open() call returned
    panicked,           \* the process has panicked (unwrap on None, overflow)
    generated,          \* history: generate_board has been called
    late,               \* history: number of operations called after the game ended
    app_state,          \* App.state: AppState
    difficulty,         \* App.difficulty
    has_game,           \* App.controller.game is Some
    cursor,             \* App.controller.cursor
    key                 \* the key event on_key_event handled last

gameVars == <<width, height, cells, num_bombs, num_revealed, num_flags, state,
              start_time, total_time>>
histVars == <<generated, late>>
appVars == <<app_state, difficulty, has_game, cursor, key>>
vars == <<gameVars, now, ret, panicked, histVars, appVars>>

GameState == {"NotRunning", "Running", "Win", "Lose"}

\* Cell::default()
DefaultCell == [is_bomb |-> FALSE, is_flagged |-> FALSE, is_revealed |-> FALSE,
                mine_count |-> 0]

\* The part of a SweeperGame the reveal engine reads and writes, as a value.
\* pushed lists, for the open() call in progress, the indices that
\* reveal_cell_queue pushed to the back of its queue (line 208).
Game == [w |-> width, h |-> height, cells |-> cells,
         num_revealed |-> num_revealed, state |-> state, pushed |-> <<>>]

-----------------------------------------------------------------------------
(* Board: coordinates and adjacency *)

is_valid_coordinate(w, h, x, y) == x >= 0 /\ x < w /\ y >= 0 /\ y < h

\* An index computation that wraps a coordinate around the board instead of
\* rejecting it.
cell_index_wrapped(w, h, x, y) == (y % h) * w + (x % w)

cell_index(w, h, x, y) ==
    IF is_valid_coordinate(w, h, x, y) THEN y * w + x ELSE None

\* The 8 offsets with the x offset in the outer loop: (i, j) instead of (j, i).
Offsets_column_major == << <<-1, -1>>, <<-1, 0>>, <<-1, 1>>,
                           <<0, -1>>,             <<0, 1>>,
                           <<1, -1>>,  <<1, 0>>,  <<1, 1>> >>

\* (-1..=1).flat_map(|i| (-1..=1).map(move |j| (j, i))) without (0, 0):
\* the offsets (dx, dy) in the order the iterator yields them.
Offsets == << <<-1, -1>>, <<0, -1>>, <<1, -1>>,
              <<-1, 0>>,             <<1, 0>>,
              <<-1, 1>>,  <<0, 1>>,  <<1, 1>> >>

\* filter_map over a sequence of Option<usize>: keeps the Some values, in order.
FilterMapSome(s) == SelectSeq(s, LAMBDA v : v # None)

adjacent_cells(w, h, ci) ==
    LET x == ci % w
        y == ci \div w
    IN FilterMapSome([k \in 1..Len(Offsets) |->
                        cell_index(w, h, x + Offsets[k][1], y + Offsets[k][2])])

\* iter().filter(|&&i| p(cells[i])).count() over a sequence s of cell
\* indices, the predicate given as the set of the indices that satisfy it
CountIn(s, satisfying) == Cardinality({k \in 1..Len(s) : s[k] \in satisfying})

\* The indices of the cells with is_bomb, resp. is_flagged
BombCells(cs) == {i \in DOMAIN cs : cs[i].is_bomb}
FlaggedCells(cs) == {i \in DOMAIN cs : cs[i].is_flagged}

-----------------------------------------------------------------------------
(* Reveal engine, on a game value g *)

\* A set_revealed that counts the cell whether or not it was revealed already.
set_revealed_always_counts(g, ci) ==
    [g EXCEPT !.cells[ci].is_revealed = TRUE,
              !.num_revealed = g.num_revealed + 1]

\* SweeperGame::set_revealed
set_revealed(g, ci) ==
    IF g.cells[ci].is_revealed THEN g
    ELSE [g EXCEPT !.cells[ci].is_revealed = TRUE,
                   !.num_revealed = g.num_revealed + 1]

RECURSIVE RevealNeighbours_through_flags(_, _, _)
\* An inner loop that skips the revealed neighbours only, not the flagged ones.
RevealNeighbours_through_flags(g, q, adj) ==
    IF adj = <<>> THEN [g |-> g, q |-> q]
    ELSE LET j == Head(adj)
         IN IF g.cells[j].is_revealed
            THEN RevealNeighbours_through_flags(g, q, Tail(adj))
            ELSE RevealNeighbours_through_flags(
                    [set_revealed(g, j) EXCEPT !.pushed = Append(@, j)],
                    Append(q, j), Tail(adj))

RECURSIVE RevealNeighbours(_, _, _)
\* The inner loop of reveal_cell_queue: for j in adjacent_cells(cell_index).
\* Carries the game and the queue; returns both.
RevealNeighbours(g, q, adj) ==
    IF adj = <<>> THEN [g |-> g, q |-> q]
    ELSE LET j == Head(adj)
         IN IF g.cells[j].is_revealed \/ g.cells[j].is_flagged
            THEN RevealNeighbours(g, q, Tail(adj))
            ELSE RevealNeighbours(
                    [set_revealed(g, j) EXCEPT !.pushed = Append(@, j)],
                    Append(q, j), Tail(adj))

RECURSIVE reveal_cell_queue_any_count(_, _)
\* A flood fill that goes on from every cell, whatever its mine_count.
reveal_cell_queue_any_count(g, cell_q) ==
    IF cell_q = <<>> THEN g
    ELSE LET ci == Head(cell_q)
             adjacent == adjacent_cells(g.w, g.h, ci)
             mine_count == CountIn(adjacent, BombCells(g.cells))
             g1 == [g EXCEPT !.cells[ci].mine_count = mine_count % 256]
             r == RevealNeighbours(g1, Tail(cell_q), adjacent)
         IN reveal_cell_queue_any_count(r.g, r.q)

RECURSIVE RevealNeighbours_unmarked(_, _, _)
\* An inner loop that pushes a neighbour without marking it revealed.
RevealNeighbours_unmarked(g, q, adj) ==
    IF adj = <<>> THEN [g |-> g, q |-> q]
    ELSE LET j == Head(adj)
         IN IF g.cells[j].is_revealed \/ g.cells[j].is_flagged
            THEN RevealNeighbours_unmarked(g, q, Tail(adj))
            ELSE RevealNeighbours_unmarked(
                    [g EXCEPT !.pushed = Append(@, j)], Append(q, j), Tail(adj))

RECURSIVE reveal_cell_queue_mark_on_pop(_, _)
\* A flood fill that marks a cell revealed when it is popped, not when it is
\* pushed.
reveal_cell_queue_mark_on_pop(g, cell_q) ==
    IF cell_q = <<>> THEN g
    ELSE LET ci == Head(cell_q)
             adjacent == adjacent_cells(g.w, g.h, ci)
             mine_count == CountIn(adjacent, BombCells(g.cells))
             g1 == [set_revealed(g, ci) EXCEPT !.cells[ci].mine_count = mine_count % 256]
         IN IF mine_count = 0
            THEN LET r == RevealNeighbours_unmarked(g1, Tail(cell_q), adjacent)
                 IN reveal_cell_queue_mark_on_pop(r.g, r.q)
            ELSE reveal_cell_queue_mark_on_pop(g1, Tail(cell_q))

RECURSIVE reveal_cell_queue(_, _)
reveal_cell_queue(g, cell_q) ==
    IF cell_q = <<>> THEN g
    ELSE LET ci == Head(cell_q)
             adjacent == adjacent_cells(g.w, g.h, ci)
             mine_count == CountIn(adjacent, BombCells(g.cells))
             g1 == [g EXCEPT !.cells[ci].mine_count = mine_count % 256]
         IN IF mine_count = 0
            THEN LET r == RevealNeighbours(g1, Tail(cell_q), adjacent)
                 IN reveal_cell_queue(r.g, r.q)
            ELSE reveal_cell_queue(g1, Tail(cell_q))

reveal_cell(g, ci) ==
    LET g1 == set_revealed(g, ci)
    IN IF g1.cells[ci].is_bomb
       THEN [g1 EXCEPT !.state = "Lose"]
       ELSE reveal_cell_queue(g1, <<ci>>)

RECURSIVE ChordLoop(_, _)
\* for &i in &cell_q { set_revealed(i); if is_bomb { state = Lose; return } }
\* Returns the game and whether the loop returned early.
ChordLoop(g, rest) ==
    IF rest = <<>> THEN [g |-> g, hit |-> FALSE]
    ELSE LET g1 == set_revealed(g, Head(rest))
         IN IF g1.cells[Head(rest)].is_bomb
            THEN [g |-> [g1 EXCEPT !.state = "Lose"], hit |-> TRUE]
            ELSE ChordLoop(g1, Tail(rest))

\* A chord that skips the comparison of the flag count with mine_count.
reveal_adjacent_cells_unchecked(g, ci) ==
    LET adjacent == adjacent_cells(g.w, g.h, ci)
        cell_q == SelectSeq(adjacent, LAMBDA i : ~g.cells[i].is_flagged)
        r == ChordLoop(g, cell_q)
    IN IF r.hit THEN r.g ELSE reveal_cell_queue(r.g, cell_q)

reveal_adjacent_cells(g, ci) ==
    LET adjacent == adjacent_cells(g.w, g.h, ci)
        flag_count == CountIn(adjacent, FlaggedCells(g.cells))
    IN IF flag_count # g.cells[ci].mine_count THEN g
       ELSE LET cell_q == SelectSeq(adjacent, LAMBDA i : ~g.cells[i].is_flagged)
                r == ChordLoop(g, cell_q)
            IN IF r.hit THEN r.g ELSE reveal_cell_queue(r.g, cell_q)

\* Lines 77-85 of open: the dispatch on the target cell.
OpenDispatch(g, x, y) ==
    LET ci == cell_index(g.w, g.h, x, y)
    IN IF ci = None THEN g
       ELSE IF g.cells[ci].is_revealed THEN reveal_adjacent_cells(g, ci)
            ELSE reveal_cell(g, ci)

\* width * height - num_bombs overflows usize (line 87).
SubOverflows == num_bombs > width * height

\* Line 87: num_revealed >= width * height - num_bombs, in usize arithmetic.
\* When the subtraction overflows, a debug build panics and a release build
\* wraps to 2^64 - k, which no counter of a board this size reaches: the
\* comparison is then false.
WinReached(nr) ==
    IF SubOverflows THEN FALSE
    ELSE nr >= width * height - num_bombs

\* Lines 87-89 and 95 of open: the state open leaves and returns, given the
\* game g1 its dispatch produced.
OpenReturn(g1) == IF WinReached(g1.num_revealed) THEN "Win" ELSE g1.state

-----------------------------------------------------------------------------
(* Operations *)

Min(a, b) == IF a <= b THEN a ELSE b

Boards == {b \in (1..MaxWidth) \X (1..MaxHeight) : b[1] * b[2] <= MaxCells}

\* App::new(): the menu, no game yet, no key handled yet.
AppNew ==
    /\ app_state = "Menu"
    /\ difficulty = "Beginner"
    /\ has_game = FALSE
    /\ cursor = <<0, 0>>
    /\ key = "none"

\* SweeperGame::new(width, height, num_bombs), with num_bombs <= width*height - 1,
\* constructed by a caller of the engine (as the unit tests do); the App is
\* not involved and stays as constructed.
Init ==
    /\ AppNew
    /\ \E b \in Boards :
         /\ width = b[1]
         /\ height = b[2]
    /\ num_bombs \in 0..(width * height - 1)
    /\ cells = [i \in 0..(width * height - 1) |-> DefaultCell]
    /\ num_revealed = 0
    /\ num_flags = 0
    /\ state = "NotRunning"
    /\ start_time = None
    /\ total_time = 0
    /\ now = 0
    /\ ret = "none"
    /\ panicked = FALSE
    /\ generated = FALSE
    /\ late = 0

\* The coordinates the operations are called with: every cell of the board,
\* and the coordinates just off the board along both axes and both diagonals.
Coords ==
    ((0..(width - 1)) \X (0..(height - 1)))
    \cup {<<0 - 1, 0>>, <<width, 0>>, <<0, 0 - 1>>, <<0, height>>,
          <<0 - 1, 0 - 1>>, <<width, height>>}

\* A sampler that may draw the same candidate more than once: between one
\* and `amount` distinct indices.
ChooseWithRepeats(candidates, amount) ==
    {S \in SUBSET candidates :
        /\ Cardinality(S) <= Min(amount, Cardinality(candidates))
        /\ (S = {}) = (Min(amount, Cardinality(candidates)) = 0)}

\* The index sets choose_multiple(&mut rng, amount) can return: every set of
\* `amount` distinct candidates, or all of them when there are fewer.
ChooseMultiple(candidates, amount) ==
    {S \in SUBSET candidates : Cardinality(S) = Min(amount, Cardinality(candidates))}

\* Every index is a candidate, the safe cell included.
AllCandidates(x, y) == DOMAIN cells

\* (0..cells.len()).filter(|&i| i != cell_index(x, y).unwrap())
BombCandidates(x, y) ==
    {i \in DOMAIN cells : i # cell_index(width, height, x, y)}

\* generate_board(x, y), with the safe cell on the board.
GenerateBoard(x, y) ==
    /\ ~panicked
    /\ cell_index(width, height, x, y) # None
    /\ \E bomb_indices \in ChooseMultiple(BombCandidates(x, y), num_bombs) :
         cells' = [i \in DOMAIN cells |->
                     IF i \in bomb_indices THEN [cells[i] EXCEPT !.is_bomb = TRUE]
                     ELSE cells[i]]
    /\ generated' = TRUE
    /\ UNCHANGED <<width, height, num_bombs, num_revealed, num_flags, state,
                   start_time, total_time, now, ret, panicked>>

\* generate_board(x, y) with (x, y) off the board: cell_index(x, y).unwrap()
\* panics in the filter closure (the board has at least one cell).
GenerateBoardPanic(x, y) ==
    /\ ~panicked
    /\ cell_index(width, height, x, y) = None
    /\ panicked' = TRUE
    /\ UNCHANGED <<gameVars, now, ret, generated>>

\* start()
Start ==
    /\ ~panicked
    /\ state' = "Running"
    /\ start_time' = now
    /\ UNCHANGED <<width, height, cells, num_bombs, num_revealed, num_flags,
                   total_time, now, ret, panicked, generated>>

\* end_game(), as the new total_time
end_game == IF start_time # None THEN now - start_time ELSE total_time

\* open(x, y) -> GameState, as a function of the current state: the fields
\* open assigns (it has no assignment to num_flags, carried here unchanged)
\* and the value it returns. (Init keeps num_bombs <= width*height - 1, so
\* line 87 does not overflow in the runs explored here.)
OpenResult(x, y) ==
    LET g1 == OpenDispatch(Game, x, y)
        st == OpenReturn(g1)
    IN [cells |-> g1.cells,
        num_revealed |-> g1.num_revealed,
        num_flags |-> num_flags,
        state |-> st,
        total_time |-> IF st # "Running" THEN end_game ELSE total_time,
        ret |-> st]

\* (The result is bound by \E over a singleton, here and below, so that it
\* is computed once per step.)
Open(x, y) ==
    /\ ~panicked
    /\ \E r \in {OpenResult(x, y)} :
          /\ cells' = r.cells
          /\ num_revealed' = r.num_revealed
          /\ num_flags' = r.num_flags
          /\ state' = r.state
          /\ total_time' = r.total_time
          /\ ret' = r.ret
    /\ UNCHANGED <<width, height, num_bombs, start_time, now, panicked,
                   generated>>

\* A flag that sets is_flagged instead of toggling it.
FlagResult_set_only(cs, nf, x, y) ==
    LET ci == cell_index(width, height, x, y)
    IN IF ci # None /\ ~cs[ci].is_revealed
       THEN [cells |-> [cs EXCEPT ![ci].is_flagged = TRUE],
             num_flags |-> IF ~cs[ci].is_flagged THEN nf + 1 ELSE nf,
             panicked |-> FALSE]
       ELSE [cells |-> cs, num_flags |-> nf, panicked |-> FALSE]

\* A flag that counts up on every toggle, also when it clears the flag.
FlagResult_always_increments(cs, nf, x, y) ==
    LET ci == cell_index(width, height, x, y)
    IN IF ci # None /\ ~cs[ci].is_revealed
       THEN [cells |-> [cs EXCEPT ![ci].is_flagged = ~cs[ci].is_flagged],
             num_flags |-> nf + 1,
             panicked |-> FALSE]
       ELSE [cells |-> cs, num_flags |-> nf, panicked |-> FALSE]

\* flag(x, y) on the cells cs and the counter nf: the fields it assigns, and
\* whether num_flags -= 1 underflows (line 107).
FlagResult(cs, nf, x, y) ==
    LET ci == cell_index(width, height, x, y)
    IN IF ci # None /\ ~cs[ci].is_revealed
       THEN [cells |-> [cs EXCEPT ![ci].is_flagged = ~cs[ci].is_flagged],
             num_flags |-> IF ~cs[ci].is_flagged THEN nf + 1
                           ELSE IF nf > 0 THEN nf - 1 ELSE nf,
             panicked |-> cs[ci].is_flagged /\ nf = 0]
       ELSE [cells |-> cs, num_flags |-> nf, panicked |-> FALSE]

\* flag(x, y)
Flag(x, y) ==
    /\ ~panicked
    /\ \E r \in {FlagResult(cells, num_flags, x, y)} :
          /\ cells' = r.cells
          /\ num_flags' = r.num_flags
          /\ panicked' = r.panicked
    /\ UNCHANGED <<width, height, num_bombs, num_revealed, state, start_time,
                   total_time, now, ret, generated>>

\* SweeperController::resign(), with a game present
Resign ==
    /\ ~panicked
    /\ state' = "Lose"
    /\ UNCHANGED <<width, height, cells, num_bombs, num_revealed, num_flags,
                   start_time, total_time, now, ret, panicked, generated>>

-----------------------------------------------------------------------------
(* Callers *)

Terminal == state \in {"Win", "Lose"}

\* App::on_key_event / on_game_key_event call resign, open and flag only
\* while SweeperController::is_running().
is_running == state = "Running"

\* A caller that follows the lifecycle: generate_board once on the fresh
\* game, then start, then open / flag / resign while the game is running.
Next ==
    \/ \E c \in Coords : ~generated /\ state = "NotRunning"
                         /\ GenerateBoard(c[1], c[2]) /\ UNCHANGED <<late, appVars>>
    \/ \E c \in Coords : ~generated /\ state = "NotRunning"
                         /\ GenerateBoardPanic(c[1], c[2]) /\ UNCHANGED <<late, appVars>>
    \/ generated /\ state = "NotRunning" /\ Start /\ UNCHANGED <<late, appVars>>
    \/ \E c \in Coords : is_running /\ Open(c[1], c[2]) /\ UNCHANGED <<late, appVars>>
    \/ \E c \in Coords : is_running /\ Flag(c[1], c[2]) /\ UNCHANGED <<late, appVars>>
    \/ is_running /\ Resign /\ UNCHANGED <<late, appVars>>

Spec == Init /\ [][Next]_vars

\* A caller that follows the lifecycle until the game ends and then goes on
\* calling the engine: up to MaxLateCalls more operations.
LateCall(Op) ==
    /\ Terminal \/ late > 0
    /\ late < MaxLateCalls
    /\ Op
    /\ late' = late + 1
    /\ UNCHANGED appVars

NextLate ==
    \/ late = 0 /\ Next
    \/ \E c \in Coords : LateCall(Open(c[1], c[2]))
    \/ \E c \in Coords : LateCall(Flag(c[1], c[2]))
    \/ LateCall(Start)
    \/ LateCall(Resign)

\* The late caller is explored on the boards of at most MaxLateCells cells.
InitLate == Init /\ width * height <= MaxLateCells

SpecLate == InitLate /\ [][NextLate]_vars

\* get_cell(x, y) -> Option<&Cell>
get_cell(x, y) ==
    LET ci == cell_index(width, height, x, y)
    IN IF ci = None THEN None ELSE cells[ci]

\* get_elapsed_time(); start_time.elapsed() is now - start_time
get_elapsed_time ==
    CASE state = "Running" -> (IF start_time # None THEN now - start_time ELSE 0)
      [] state \in {"Win", "Lose"} -> total_time
      [] OTHER -> 0

\* Time passes between two calls: Instant::now() is monotonic.
Tick ==
    /\ now < MaxNow
    /\ now' = now + 1
    /\ UNCHANGED <<gameVars, ret, panicked, histVars, appVars>>

\* The late caller with a running clock, on the boards of at most
\* MaxClockCells cells.
NextClock ==
    \/ NextLate
    \/ Tick

InitClock == Init /\ width * height <= MaxClockCells

SpecClock == InitClock /\ [][NextClock]_vars

-----------------------------------------------------------------------------
(* The App: key events handled by App::on_key_event *)

\* Difficulty::setting()
setting(d) ==
    CASE d = "Beginner" -> [width |-> 10, height |-> 10, bomb_count |-> 10]
      [] d = "Intermediate" -> [width |-> 16, height |-> 16, bomb_count |-> 40]
      [] d = "Expert" -> [width |-> 30, height |-> 16, bomb_count |-> 99]

\* Difficulty::next()
next(d) ==
    CASE d = "Beginner" -> "Intermediate"
      [] d = "Intermediate" -> "Expert"
      [] d = "Expert" -> "Beginner"

\* SweeperController::is_running()
ControllerIsRunning == has_game /\ state = "Running"

\* A clamp that enforces the upper bound only.
Clamp_upper_only(v, min, max) == IF v > max THEN max ELSE v

\* isize::clamp(min, max), for min <= max
Clamp(v, min, max) == IF v < min THEN min ELSE IF v > max THEN max ELSE v

\* SweeperController::move_cursor(dx, dy), as the new cursor
move_cursor(dx, dy) ==
    IF has_game
    THEN <<Clamp(cursor[1] + dx, 0, width - 1), Clamp(cursor[2] + dy, 0, height - 1)>>
    ELSE cursor

\* Esc or 'q': resign a running game, else quit.
KeyQuit ==
    /\ app_state # "Exit"
    /\ key' = "q"
    /\ IF ControllerIsRunning
       THEN /\ Resign
            /\ UNCHANGED <<late, app_state, difficulty, has_game, cursor>>
       ELSE /\ app_state' = "Exit"
            /\ UNCHANGED <<gameVars, now, ret, panicked, histVars, difficulty,
                           has_game, cursor>>

\* Ctrl-C: quit.
KeyCtrlC ==
    /\ app_state # "Exit"
    /\ key' = "ctrl-c"
    /\ app_state' = "Exit"
    /\ UNCHANGED <<gameVars, now, ret, panicked, histVars, difficulty, has_game,
                   cursor>>

\* 'n': App::start_game, SweeperController::start_game, SweeperGame::new.
KeyN ==
    /\ app_state # "Exit"
    /\ key' = "n"
    /\ app_state' = "InGame"
    /\ has_game' = TRUE
    /\ cursor' = <<0, 0>>
    /\ width' = setting(difficulty).width
    /\ height' = setting(difficulty).height
    /\ num_bombs' = setting(difficulty).bomb_count
    /\ cells' = [i \in 0..(setting(difficulty).width * setting(difficulty).height - 1)
                   |-> DefaultCell]
    /\ num_revealed' = 0
    /\ num_flags' = 0
    /\ state' = "NotRunning"
    /\ start_time' = None
    /\ total_time' = 0
    /\ ret' = "none"
    /\ generated' = FALSE
    /\ UNCHANGED <<now, panicked, late, difficulty>>

\* 'd': the next difficulty, in the menu only.
KeyD ==
    /\ app_state # "Exit"
    /\ key' = "d"
    /\ difficulty' = IF app_state = "Menu" THEN next(difficulty) ELSE difficulty
    /\ UNCHANGED <<gameVars, now, ret, panicked, histVars, app_state, has_game,
                   cursor>>

\* The arrow keys, with the offsets on_game_key_event passes to move_cursor.
Arrows == {<<"left", 0 - 1, 0>>, <<"right", 1, 0>>, <<"up", 0, 0 - 1>>,
           <<"down", 0, 1>>}

KeyArrow(a) ==
    /\ app_state # "Exit"
    /\ key' = a[1]
    /\ cursor' = IF app_state = "InGame" THEN move_cursor(a[2], a[3]) ELSE cursor
    /\ UNCHANGED <<gameVars, now, ret, panicked, histVars, app_state, difficulty,
                   has_game>>

\* A ' ' handler that opens whenever there is a game, running or not.
KeySpace_unguarded ==
    /\ app_state # "Exit"
    /\ key' = "space"
    /\ IF app_state = "InGame" /\ has_game
       THEN Open(cursor[1], cursor[2])
       ELSE UNCHANGED <<gameVars, now, ret, panicked, generated>>
    /\ UNCHANGED <<late, app_state, difficulty, has_game, cursor>>

\* ' ': SweeperController::open at the cursor, if the game is running.
KeySpace ==
    /\ app_state # "Exit"
    /\ key' = "space"
    /\ IF app_state = "InGame" /\ ControllerIsRunning
       THEN Open(cursor[1], cursor[2])
       ELSE UNCHANGED <<gameVars, now, ret, panicked, generated>>
    /\ UNCHANGED <<late, app_state, difficulty, has_game, cursor>>

\* 'f': SweeperController::flag at the cursor, if the game is running.
KeyF ==
    /\ app_state # "Exit"
    /\ key' = "f"
    /\ IF app_state = "InGame" /\ ControllerIsRunning
       THEN Flag(cursor[1], cursor[2])
       ELSE UNCHANGED <<gameVars, now, ret, panicked, generated>>
    /\ UNCHANGED <<late, app_state, difficulty, has_game, cursor>>

NextApp ==
    \/ KeyQuit
    \/ KeyCtrlC
    \/ KeyN
    \/ KeyD
    \/ \E a \in Arrows : KeyArrow(a)
    \/ KeySpace
    \/ KeyF

\* App::new() with SweeperController::new(): game is None. The game's fields
\* have no value yet; they are written here as those of an empty board.
InitApp ==
    /\ AppNew
    /\ width = 0
    /\ height = 0
    /\ cells = <<>>
    /\ num_bombs = 0
    /\ num_revealed = 0
    /\ num_flags = 0
    /\ state = "NotRunning"
    /\ start_time = None
    /\ total_time = 0
    /\ now = 0
    /\ ret = "none"
    /\ panicked = FALSE
    /\ generated = FALSE
    /\ late = 0

SpecApp == InitApp /\ [][NextApp]_vars

-----------------------------------------------------------------------------
(* Properties *)

Cells == DOMAIN cells
OnBoard == {c \in Coords : cell_index(width, height, c[1], c[2]) # None}
Index(c) == cell_index(width, height, c[1], c[2])

\* width*height - num_bombs: the number of cells that are not bombs
SafeTotal == width * height - num_bombs

\* The cells at one of the 8 offsets around cell i, as a set.
Neighbours(i) ==
    {j \in Cells \ {i} :
        LET dx == (j % width) - (i % width)
            dy == (j \div width) - (i \div width)
        IN dx \in {-1, 0, 1} /\ dy \in {-1, 0, 1}}

\* C1: in every state reached by generate_board (once), start, open and flag
\* calls, 0 <= num_revealed <= width*height - num_bombs.
C1_NumRevealedInRange ==
    0 <= num_revealed /\ num_revealed <= SafeTotal

\* C2: in every state of a generated and started game, state = Win exactly
\* when num_revealed = width*height - num_bombs.
C2_WinIffAllSafeRevealed ==
    (generated /\ state # "NotRunning")
        => ((state = "Win") <=> (num_revealed = SafeTotal))

\* C3: on a Running game, open on an unrevealed bomb cell returns Lose, leaves
\* the state Lose, reveals that cell alone and computes no mine_count.
C3_OpenBombLoses ==
    [][\A c \in OnBoard :
         (/\ state = "Running"
          /\ ~cells[Index(c)].is_revealed
          /\ cells[Index(c)].is_bomb
          /\ Open(c[1], c[2]))
         => (/\ ret' = "Lose"
             /\ state' = "Lose"
             /\ cells' = [cells EXCEPT ![Index(c)].is_revealed = TRUE]
             /\ num_revealed' = num_revealed + 1)]_vars

\* C4: no cell is both flagged and revealed.
C4_NeverFlaggedAndRevealed ==
    \A i \in Cells : ~(cells[i].is_flagged /\ cells[i].is_revealed)

\* C5: the state only moves NotRunning -> Running -> {Win, Lose}; Win and
\* Lose are never left and never exchanged.
C5_StateMovesForward ==
    [][\/ state' = state
       \/ state = "NotRunning" /\ state' = "Running"
       \/ state = "Running" /\ state' \in {"Win", "Lose"}]_vars

\* C6: once the state is Win or Lose, an open or flag call changes no cell
\* and neither counter.
C6_EndedGameIsFrozen ==
    [][\A c \in Coords :
         (Terminal /\ (Open(c[1], c[2]) \/ Flag(c[1], c[2])))
         => UNCHANGED <<cells, num_revealed, num_flags>>]_vars

\* C7: after generate_board(safeX, safeY) on a fresh game, whatever the random
\* choice, the cell at (safeX, safeY) is not a bomb.
C7_SafeCellIsNoBomb ==
    [][\A c \in OnBoard :
         (~generated /\ GenerateBoard(c[1], c[2]))
         => ~cells'[Index(c)].is_bomb]_vars

\* C7's case: the board was generated with every cell but one a bomb.
C7_Witness ==
    /\ generated
    /\ width * height >= 2
    /\ Cardinality(BombCells(cells)) = width * height - 1

\* C8: a generate_board call on a fresh game leaves exactly num_bombs bombs,
\* the state NotRunning, and num_revealed = num_flags = 0.
C8_GenerateBoardPlacesNumBombs ==
    [][\A c \in OnBoard :
         (~generated /\ GenerateBoard(c[1], c[2]))
         => (/\ Cardinality(BombCells(cells')) = num_bombs
             /\ state' = "NotRunning"
             /\ num_revealed' = 0
             /\ num_flags' = 0)]_vars

\* C8's case: a board generated with two or more bombs, not yet started.
C8_Witness ==
    /\ generated
    /\ state = "NotRunning"
    /\ num_bombs >= 2
    /\ Cardinality(BombCells(cells)) >= 2

\* C9: whichever cell an open call targets, no cell that reveal_cell_queue
\* reveals (the cells it pushes to its queue) is a bomb; a bomb the call
\* reveals is the target itself (first reveal) or an unflagged neighbour of
\* the already revealed target (chord loop).
C9_FloodFillRevealsNoBomb ==
    \A c \in OnBoard : \A r \in {OpenDispatch(Game, c[1], c[2])} :
        LET newBombs == {i \in BombCells(cells) :
                           r.cells[i].is_revealed /\ ~cells[i].is_revealed}
        IN /\ \A k \in 1..Len(r.pushed) : ~cells[r.pushed[k]].is_bomb
           /\ newBombs \subseteq
                 (IF cells[Index(c)].is_revealed
                  THEN {j \in Neighbours(Index(c)) : ~cells[j].is_flagged}
                  ELSE {Index(c)})

\* C9's case: on a running board with a bomb, an open call whose flood fill
\* reveals two or more cells.
C9_Witness ==
    /\ state = "Running"
    /\ BombCells(cells) # {}
    /\ \E c \in OnBoard : Len(OpenDispatch(Game, c[1], c[2]).pushed) >= 2

RECURSIVE FillRegion(_)
\* The least set of cells that contains S and, for each member with no bomb
\* among its neighbours, the neighbours that are neither revealed nor flagged
\* in the current state.
FillRegion(S) ==
    LET zero == {m \in S : Neighbours(m) \cap BombCells(cells) = {}}
        more == UNION {{j \in Neighbours(m) :
                          ~cells[j].is_revealed /\ ~cells[j].is_flagged} : m \in zero}
    IN IF more \subseteq S THEN S ELSE FillRegion(S \cup more)

\* C11: on a Running game, open on an unrevealed cell that is not a bomb newly
\* reveals exactly the fill region of that cell (cells with a non-zero count are
\* revealed and do not propagate); when that leaves every safe cell revealed,
\* the call returns Win.
C11_OpenRevealsFillRegion ==
    state = "Running" =>
        \A c \in OnBoard :
            (~cells[Index(c)].is_revealed /\ ~cells[Index(c)].is_bomb)
            => \A r \in {OpenResult(c[1], c[2])} :
                  /\ {i \in Cells : r.cells[i].is_revealed /\ ~cells[i].is_revealed}
                       = FillRegion({Index(c)})
                  /\ ((\A i \in Cells \ BombCells(cells) : r.cells[i].is_revealed)
                         => r.ret = "Win")

\* C11's case: a running board with a bomb and a flag, where
\* opening some unrevealed safe cell fills a region of three or more cells that
\* has a non-zero border cell and stops at a flagged cell.
C11_Witness ==
    /\ state = "Running"
    /\ BombCells(cells) # {}
    /\ \E c \in OnBoard :
         LET R == FillRegion({Index(c)})
         IN /\ ~cells[Index(c)].is_revealed
            /\ ~cells[Index(c)].is_bomb
            /\ Cardinality(R) >= 3
            /\ \E m \in R : Neighbours(m) \cap BombCells(cells) # {}
            /\ \E m \in R : /\ Neighbours(m) \cap BombCells(cells) = {}
                             /\ \E j \in Neighbours(m) :
                                   cells[j].is_flagged /\ ~cells[j].is_revealed

\* The number of flagged cells among the neighbours of cell i.
FlaggedAround(i) == Cardinality(Neighbours(i) \cap FlaggedCells(cells))

\* C12: on a Running game, open on a revealed cell whose number of flagged
\* neighbours differs from its mine_count changes no cell, neither counter and
\* not the state, and returns Running.
C12_ChordWithOtherFlagCountIsNoOp ==
    state = "Running" =>
        \A c \in OnBoard :
            (/\ cells[Index(c)].is_revealed
             /\ FlaggedAround(Index(c)) # cells[Index(c)].mine_count)
            => \A r \in {OpenResult(c[1], c[2])} :
                  /\ r.cells = cells
                  /\ r.num_revealed = num_revealed
                  /\ r.num_flags = num_flags
                  /\ r.state = state
                  /\ r.ret = "Running"

\* C12's case: the last open returned Running, and some revealed cell has a
\* flag count other than its mine_count and a neighbour a chord would reveal.
C12_Witness ==
    /\ state = "Running"
    /\ ret = "Running"
    /\ \E i \in Cells :
         /\ cells[i].is_revealed
         /\ FlaggedAround(i) # cells[i].mine_count
         /\ \E j \in Neighbours(i) : ~cells[j].is_revealed /\ ~cells[j].is_flagged

RECURSIVE UpToFirstBomb(_)
\* The cells of the sequence s up to and including its first bomb.
UpToFirstBomb(s) ==
    IF s = <<>> THEN {}
    ELSE IF cells[Head(s)].is_bomb THEN {Head(s)}
         ELSE {Head(s)} \cup UpToFirstBomb(Tail(s))

\* C13: on a Running game, open on a revealed cell whose flagged-neighbour count
\* equals its mine_count and that has an unflagged bomb neighbour returns Lose;
\* the cells it newly reveals are the unflagged neighbours up to and including
\* the first bomb in adjacency order, and no flagged neighbour is revealed.
C13_ChordOnBombLoses ==
    state = "Running" =>
        \A c \in OnBoard :
            (/\ cells[Index(c)].is_revealed
             /\ FlaggedAround(Index(c)) = cells[Index(c)].mine_count
             /\ \E j \in Neighbours(Index(c)) : cells[j].is_bomb /\ ~cells[j].is_flagged)
            => \A r \in {OpenResult(c[1], c[2])} :
               LET unflagged == SelectSeq(adjacent_cells(width, height, Index(c)),
                                          LAMBDA j : ~cells[j].is_flagged)
               IN /\ r.ret = "Lose"
                  /\ {i \in Cells : r.cells[i].is_revealed /\ ~cells[i].is_revealed}
                       = {j \in UpToFirstBomb(unflagged) : ~cells[j].is_revealed}

\* C14: when a Running game enters Win or Lose, through open or through
\* resign, total_time becomes the clock time elapsed since start(), and
\* get_elapsed_time returns it.
C14_EndFixesTotalTime ==
    [][(state = "Running" /\ state' \in {"Win", "Lose"})
         => (/\ total_time' = now - start_time
             /\ get_elapsed_time' = now - start_time)]_vars

\* C15: once the state is Win or Lose, no clock tick and no open or flag call
\* changes the value get_elapsed_time returns.
C15_ElapsedTimeFrozenAfterEnd ==
    [][(/\ Terminal
        /\ \/ Tick
           \/ \E c \in Coords : Open(c[1], c[2])
           \/ \E c \in Coords : Flag(c[1], c[2]))
         => get_elapsed_time' = get_elapsed_time]_vars

\* C16: no call of generate_board, start, open or flag, with coordinates on or
\* off the board, reaches a panic.
C16_NoPanic == ~panicked

\* The coordinates with x or y outside the board.
OffBoard == {c \in Coords : c[1] < 0 \/ c[1] >= width \/ c[2] < 0 \/ c[2] >= height}

\* C17: on a Running game, open(x, y) and flag(x, y) with x or y outside the
\* board change no cell, neither counter and not the state, open returns the
\* current state, and get_cell(x, y) is None.
C17_OffBoardIsNoOp ==
    state = "Running" =>
        \A c \in OffBoard :
            \A o \in {OpenResult(c[1], c[2])} :
            \A f \in {FlagResult(cells, num_flags, c[1], c[2])} :
               /\ o.cells = cells
               /\ o.num_revealed = num_revealed
               /\ o.num_flags = num_flags
               /\ o.state = state
               /\ o.ret = state
               /\ f.cells = cells
               /\ f.num_flags = num_flags
               /\ ~f.panicked
               /\ get_cell(c[1], c[2]) = None

\* C17's case: a running game with a revealed cell, a flagged cell and an
\* unrevealed, unflagged one, after an open call that returned Running.
C17_Witness ==
    /\ state = "Running"
    /\ ret = "Running"
    /\ OffBoard # {}
    /\ \E i \in Cells : cells[i].is_revealed
    /\ \E i \in Cells : cells[i].is_flagged /\ ~cells[i].is_revealed
    /\ \E i \in Cells : ~cells[i].is_flagged /\ ~cells[i].is_revealed

\* C18: in every state and for every coordinate, two flag(x, y) calls in a row
\* bring every cell's is_flagged and the counter num_flags back to their values
\* before the first call (flag assigns nothing else), and neither call panics.
C18_FlagTwiceRestores ==
    \A c \in Coords :
        \A f1 \in {FlagResult(cells, num_flags, c[1], c[2])} :
        \A f2 \in {FlagResult(f1.cells, f1.num_flags, c[1], c[2])} :
           /\ ~f1.panicked
           /\ ~f2.panicked
           /\ f2.cells = cells
           /\ f2.num_flags = num_flags

\* C18's case: a board with a flagged unrevealed cell (the pair unflags, then
\* flags), an unflagged unrevealed one (flags, then unflags) and a revealed one.
C18_Witness ==
    /\ num_flags >= 1
    /\ \E i \in Cells : cells[i].is_flagged /\ ~cells[i].is_revealed
    /\ \E i \in Cells : ~cells[i].is_flagged /\ ~cells[i].is_revealed
    /\ \E i \in Cells : cells[i].is_revealed

\* C19: num_flags equals the number of cells with is_flagged.
C19_NumFlagsCountsFlaggedCells ==
    num_flags = Cardinality(FlaggedCells(cells))

\* C19's case: two or more flags are set, one of them on a cell that an open
\* call revealed afterwards, and another flagged cell is still unrevealed.
C19_Witness ==
    /\ num_flags >= 2
    /\ \E i \in Cells : cells[i].is_flagged /\ cells[i].is_revealed
    /\ \E i \in Cells : cells[i].is_flagged /\ ~cells[i].is_revealed

\* C20: for a game the App started, once the open key has been handled in the
\* game screen the board has been generated (generate_board) and the game
\* started (start): its state is Running, or an end state reached from it.
C20_OpenKeyGeneratesAndStarts ==
    (app_state = "InGame" /\ has_game /\ key = "space")
        => (generated /\ state \in {"Running", "Win", "Lose"})

\* The cells of a w x h board at one of the 8 offsets around cell i, as a set.
NeighboursOn(w, h, i) ==
    {j \in (0..(w * h - 1)) \ {i} :
        LET dx == (j % w) - (i % w)
            dy == (j \div w) - (i \div w)
        IN dx \in {-1, 0, 1} /\ dy \in {-1, 0, 1}}

\* The board sizes adjacent_cells is examined on: every size up to
\* MaxAdjSide x MaxAdjSide, and the size of the game at hand.
AdjSizes == ((1..MaxAdjSide) \X (1..MaxAdjSide)) \cup {<<width, height>>}

\* C21: for every board size and every cell index, adjacent_cells lists exactly
\* the on-board cells at the 8 offsets around the cell, each once, never the
\* cell itself, in ascending row-major index order. (adjacent_cells reads only
\* width and height: the sizes are gone through once, on the fresh game.)
C21_AdjacentCellsAreTheNeighbours ==
    ~generated =>
        \A b \in AdjSizes : \A i \in 0..(b[1] * b[2] - 1) :
            \A a \in {adjacent_cells(b[1], b[2], i)} :
                /\ {a[k] : k \in 1..Len(a)} = NeighboursOn(b[1], b[2], i)
                /\ Len(a) = Cardinality(NeighboursOn(b[1], b[2], i))
                /\ \A k \in 1..Len(a) : a[k] # i
                /\ \A k \in 1..(Len(a) - 1) : a[k] < a[k + 1]

\* C21's case: a fresh game, among boards that have an inner cell with all 8
\* neighbours, an edge cell with 5 and a corner cell with 3.
C21_Witness ==
    /\ ~generated
    /\ ~panicked
    /\ \E b \in AdjSizes :
         /\ \E i \in 0..(b[1] * b[2] - 1) : Len(adjacent_cells(b[1], b[2], i)) = 8
         /\ \E i \in 0..(b[1] * b[2] - 1) : Len(adjacent_cells(b[1], b[2], i)) = 5
         /\ \E i \in 0..(b[1] * b[2] - 1) : Len(adjacent_cells(b[1], b[2], i)) = 3

\* The queue an open call at c builds before its flood fill: the target cell
\* (first reveal of a cell that is no bomb), or the unflagged neighbours of the
\* revealed target (chord with the matching flag count).
InitialQueue(c) ==
    IF ~cells[Index(c)].is_revealed
    THEN (IF cells[Index(c)].is_bomb THEN <<>> ELSE <<Index(c)>>)
    ELSE IF FlaggedAround(Index(c)) # cells[Index(c)].mine_count THEN <<>>
         ELSE SelectSeq(adjacent_cells(width, height, Index(c)),
                        LAMBDA j : ~cells[j].is_flagged)

\* C22: every open call on a running game terminates: the cells it puts in
\* its worklist (the initial queue, then the cells pushed by the flood fill)
\* are pairwise distinct, so the worklist loop runs at most width*height times.
C22_NoCellEnqueuedTwice ==
    state = "Running" =>
        \A c \in OnBoard : \A r \in {OpenDispatch(Game, c[1], c[2])} :
            \A q \in {InitialQueue(c) \o r.pushed} :
                /\ \A k \in 1..Len(q) : \A l \in 1..Len(q) : q[k] = q[l] => k = l
                /\ Len(q) <= width * height

\* C22's case: a running game where some chord starts from a queue of two or
\* more cells, one of them revealed before, and its flood fill pushes more.
C22_Witness ==
    /\ state = "Running"
    /\ \E c \in OnBoard :
         /\ cells[Index(c)].is_revealed
         /\ Len(InitialQueue(c)) >= 2
         /\ \E k \in 1..Len(InitialQueue(c)) : cells[InitialQueue(c)[k]].is_revealed
         /\ Len(OpenDispatch(Game, c[1], c[2]).pushed) >= 1

\* The steps move_cursor is examined with.
Steps == (0 - MaxStep)..MaxStep

\* C23: on a controller with a game the cursor is inside the board, and
\* move_cursor(dx, dy) yields, along each axis, the sum when it is on the board
\* and else the nearer edge; with no game it yields the cursor unchanged.
C23_CursorStaysOnBoard ==
    /\ has_game => (/\ 0 <= cursor[1] /\ cursor[1] <= width - 1
                    /\ 0 <= cursor[2] /\ cursor[2] <= height - 1)
    /\ \A dx \in Steps : \A dy \in Steps :
         \A m \in {move_cursor(dx, dy)} :
            IF has_game
            THEN /\ 0 <= m[1] /\ m[1] <= width - 1
                 /\ 0 <= m[2] /\ m[2] <= height - 1
                 /\ (cursor[1] + dx \in 0..(width - 1)) => m[1] = cursor[1] + dx
                 /\ (cursor[1] + dx < 0) => m[1] = 0
                 /\ (cursor[1] + dx > width - 1) => m[1] = width - 1
                 /\ (cursor[2] + dy \in 0..(height - 1)) => m[2] = cursor[2] + dy
                 /\ (cursor[2] + dy < 0) => m[2] = 0
                 /\ (cursor[2] + dy > height - 1) => m[2] = height - 1
            ELSE m = cursor

\* C23's case: the arrow keys have moved the cursor to the far corner of the
\* board, where a further step right or down is clamped.
C23_Witness ==
    /\ has_game
    /\ key \in {"right", "down"}
    /\ cursor = <<width - 1, height - 1>>
    /\ move_cursor(1, 1) = cursor

\* The indices of the cells with is_revealed
RevealedCells == {i \in Cells : cells[i].is_revealed}

\* C24: in Win on a generated and started game every non-bomb cell is
\* revealed and no bomb cell is revealed.
C24_WinMeansExactlySafeCellsRevealed ==
    (generated /\ start_time # None /\ state = "Win") =>
        \A i \in Cells : cells[i].is_revealed <=> ~cells[i].is_bomb

\* C25: num_revealed is the number of cells with is_revealed.
C25_NumRevealedCountsRevealedCells ==
    num_revealed = Cardinality(RevealedCells)

\* C25's case: a chord reveal whose queue holds a cell that is already revealed
\* next to cells it reveals, the count staying exact after it.
C25_Witness ==
    /\ state = "Running"
    /\ num_revealed = Cardinality(RevealedCells)
    /\ \E c \in OnBoard :
         /\ cells[Index(c)].is_revealed
         /\ \E k \in 1..Len(InitialQueue(c)) :
                cells[InitialQueue(c)[k]].is_revealed
         /\ \A r \in {OpenResult(c[1], c[2])} :
                /\ r.num_revealed > num_revealed
                /\ r.num_revealed =
                     Cardinality({i \in Cells : r.cells[i].is_revealed})

====
